---- MODULE Spec2Model ----
(***************************************************************************)
(* Model of the podcast dashboard's two hooks.                              *)
(*                                                                         *)
(* The zoom/pan controller (src/src/hooks/useZoomPan.js): the pure helpers  *)
(* domainsEqual and clampDomain, and the useZoomPan hook as a state machine *)
(* over the React state `domains`, the props, the d3-zoom transform stored  *)
(* on the overlay node, the zoom behaviour kept in zoomBehaviorRef, the     *)
(* listeners bound to the node and the reset transition.                    *)
(*                                                                         *)
(* The data hook (usePodcastData): parseRow, averageInWindow, correlation,  *)
(* the load effect as a state machine over the rows of the file, the        *)
(* requests (one, or two when the effect runs twice under React.StrictMode) *)
(* and the React state raw, loading, error, and the memoized derivation of  *)
(* episodes, summary and insights as operators over raw, with what App      *)
(* renders from them.  Its numbers are binary floating point, described at  *)
(* the start of its section.                                                *)
(*                                                                         *)
(* Numbers of the zoom/pan controller.  A number is a record [nan, v]:      *)
(* NaN, or a value on the fixed-point grid that has EpsUnits grid steps     *)
(* per DOMAIN_EPSILON (1e-6),                                               *)
(* so two values can differ by less than, exactly, or more than the         *)
(* epsilon.  Additions and comparisons are exact on the grid; a division    *)
(* rounds down to the grid.  null/undefined domains are the empty tuple.    *)
(***************************************************************************)
EXTENDS Integers, Sequences, FiniteSets, TLC

\* ---------------------------------------------------------------- bounds
\* grid steps per DOMAIN_EPSILON
EpsUnits == 2
\* the hook's maxZoom argument (scaleExtent upper bound)
maxZoom == 2
\* sub-steps per unit of zoom scale: a transform's k field holds k * KDen
KDen == 4
\* chart geometry passed to the hook, in pixels
width == 5
height == 2
\* largest grid value drawn for clampDomain's arguments
ClampMax == 6
\* significant bits of a number of the dataset
MantissaBits == 5
\* rows of a dataset; rows of a longer well-formed series
MaxRows == 3
MaxSeries == 8

VARIABLES
  initialXDomain,   \* prop xDomain of the latest render (base domain, or Null)
  initialYDomain,   \* prop yDomain of the latest render (base domain, or Null)
  domains,          \* React state [xDomain, yDomain]
  stateChanged,     \* the last step stored a new state object (a re-render)
  zoomTransform,    \* the overlay node's __zoom
  zoomBehaviorRef,  \* Null, or the base domains captured by the zoom listener
  transition,       \* the 200 ms reset transition is scheduled or running
  listeners,        \* the '.zoom' event listeners registered on the overlay node
  resetZoomed,      \* the published domains differed from the base at resetZoom()
  pc,               \* "effects": a commit whose effects are pending; "idle"
  ev,               \* the last step taken
  candidate,        \* clampDomain's first argument   (ClampSpec)
  base,             \* clampDomain's second argument  (ClampSpec)
  clamped,          \* clampDomain(candidate, base), once applied
  reclamped,        \* clampDomain(clamped, base), once applied
  dataset,          \* the rows of the CSV file read so far
  request,          \* the csv() promise: "pending", "fulfilled" or "rejected"
  strictRequest,    \* the csv() promise of the effect's second run under
                    \* React.StrictMode; "none" when the effect runs once
  raw,              \* React state raw of usePodcastData
  loading,          \* React state loading
  error             \* React state error: "null" or the rejection's error

hookVars == << initialXDomain, initialYDomain, domains, stateChanged, zoomTransform,
               zoomBehaviorRef, transition, listeners, resetZoomed, pc, ev >>
clampVars == << candidate, base, clamped, reclamped >>
dataVars == << dataset, request, strictRequest, raw, loading, error >>
vars == << initialXDomain, initialYDomain, domains, stateChanged, zoomTransform,
           zoomBehaviorRef, transition, listeners, resetZoomed, pc, ev,
           candidate, base, clamped, reclamped,
           dataset, request, strictRequest, raw, loading, error >>

\* ------------------------------------------------------- JavaScript numbers
NaN == [nan |-> TRUE, v |-> 0]
Num(i) == [nan |-> FALSE, v |-> i]

Add(a, b) == IF a.nan \/ b.nan THEN NaN ELSE Num(a.v + b.v)
Sub(a, b) == IF a.nan \/ b.nan THEN NaN ELSE Num(a.v - b.v)
Abs(a) == IF a.nan THEN NaN ELSE IF a.v < 0 THEN Num(-a.v) ELSE a
\* comparisons with NaN are false
Lt(a, b) == ~a.nan /\ ~b.nan /\ a.v < b.v
Gt(a, b) == ~a.nan /\ ~b.nan /\ a.v > b.v
Ge(a, b) == ~a.nan /\ ~b.nan /\ a.v >= b.v
\* Math.min / Math.max: NaN if either argument is NaN
MathMin(a, b) == IF a.nan \/ b.nan THEN NaN ELSE IF a.v <= b.v THEN a ELSE b
MathMax(a, b) == IF a.nan \/ b.nan THEN NaN ELSE IF a.v >= b.v THEN a ELSE b

Null == << >>
Dom(a, b) == << Num(a), Num(b) >>

DOMAIN_EPSILON == Num(EpsUnits)

\* ------------------------------------------------------------ domainsEqual
\* `a === b` is reference identity: every call site passes a freshly built
\* array as b, so identity can hold only between two nulls.
\* (the slip `<=` in place of `<`)
domainsEqualAtEpsilon(a, b) ==
  IF a = Null /\ b = Null THEN TRUE
  ELSE IF a = Null \/ b = Null THEN FALSE
  ELSE /\ Lt(Abs(Sub(a[1], b[1])), Add(DOMAIN_EPSILON, Num(1)))
       /\ Lt(Abs(Sub(a[2], b[2])), Add(DOMAIN_EPSILON, Num(1)))
domainsEqual(a, b) ==
  IF a = Null /\ b = Null THEN TRUE
  ELSE IF a = Null \/ b = Null THEN FALSE
  ELSE /\ Lt(Abs(Sub(a[1], b[1])), DOMAIN_EPSILON)
       /\ Lt(Abs(Sub(a[2], b[2])), DOMAIN_EPSILON)

\* ------------------------------------------------------------- clampDomain
\* const ascending = base[1] >= base[0]
ascendingAlways(bas) == TRUE
ascending(bas) == Ge(bas[2], bas[1])

\* candMax - candMin < DOMAIN_EPSILON
\* (the slip `<=`)
degenerateAtEpsilon(lo, hi) == Lt(Sub(hi, lo), Add(DOMAIN_EPSILON, Num(1)))
\* (the guard never taken)
degenerateNever(lo, hi) == FALSE
degenerate(lo, hi) == Lt(Sub(hi, lo), DOMAIN_EPSILON)

\* clip-then-return: both ends cut to the base, the window not shifted
clampDomainTruncating(cand, bas) ==
  LET baseMin == MathMin(bas[1], bas[2])
      baseMax == MathMax(bas[1], bas[2])
      candMin == MathMax(baseMin, MathMin(cand[1], cand[2]))
      candMax == MathMin(baseMax, MathMax(cand[1], cand[2]))
  IN IF degenerate(candMin, candMax) THEN bas
     ELSE IF ascending(bas) THEN << candMin, candMax >> ELSE << candMax, candMin >>

clampDomain(cand, bas) ==
  IF cand = Null \/ bas = Null
  THEN (IF cand # Null THEN cand ELSE bas)
  ELSE
    LET baseMin  == MathMin(bas[1], bas[2])
        baseMax  == MathMax(bas[1], bas[2])
        candMin0 == MathMin(cand[1], cand[2])
        candMax0 == MathMax(cand[1], cand[2])
        baseSpan == Sub(baseMax, baseMin)
        candSpan == Sub(candMax0, candMin0)
        \* if (candMin < baseMin) shift right
        under    == Lt(candMin0, baseMin)
        shiftR   == Sub(baseMin, candMin0)
        candMin1 == IF under THEN Add(candMin0, shiftR) ELSE candMin0
        candMax1 == IF under THEN Add(candMax0, shiftR) ELSE candMax0
        \* if (candMax > baseMax) shift left
        over     == Gt(candMax1, baseMax)
        shiftL   == Sub(candMax1, baseMax)
        candMin2 == IF over THEN Sub(candMin1, shiftL) ELSE candMin1
        candMax2 == IF over THEN Sub(candMax1, shiftL) ELSE candMax1
        collapse == Ge(candSpan, baseSpan)
        candMin  == IF collapse THEN baseMin ELSE MathMax(baseMin, candMin2)
        candMax  == IF collapse THEN baseMax ELSE MathMin(baseMax, candMax2)
    IN IF degenerate(candMin, candMax)
       THEN bas
       ELSE IF ascending(bas) THEN << candMin, candMax >>
            ELSE << candMax, candMin >>

\* ------------------------------------------------- geometry and d3 transform
\* margin of the chart (chartDimensions.margin), in pixels
margin == [top |-> 0, right |-> 0, bottom |-> 0, left |-> 1]

\* ranges (useMemo): xRange ascending, yRange descending in pixels
xRange == << margin.left, width - margin.right >>
yRange == << height - margin.bottom, margin.top >>

\* d3 zoomIdentity: k = 1, x = 0, y = 0
zoomIdentity == [k |-> KDen, x |-> 0, y |-> 0]

\* Transform.invertX / invertY: (px - x) / k, a pixel position kept as the
\* exact fraction << numerator, denominator >>
invertX(t, px) == << (px - t.x) * KDen, t.k >>
invertY(t, py) == << (py - t.y) * KDen, t.k >>

\* interpolateNumber(a, b)(num / den) = a * (1 - t) + b * t, rounded to the grid
interpolate(a, b, num, den) ==
  IF a.nan \/ b.nan THEN NaN ELSE Num(a.v + ((b.v - a.v) * num) \div den)

\* scaleLinear().domain(dom).range(rng).invert(p): d3's bimap normalises over
\* the range in ascending order; p is the fraction p[1] / p[2]
scaleInvert(dom, rng, p) ==
  IF rng[2] < rng[1]
  THEN interpolate(dom[2], dom[1], p[1] - rng[2] * p[2], (rng[1] - rng[2]) * p[2])
  ELSE interpolate(dom[1], dom[2], p[1] - rng[1] * p[2], (rng[2] - rng[1]) * p[2])

\* transform.rescaleX(baseXScale).domain() = range.map(invertX).map(x.invert)
rescaleX(t, bas) ==
  << scaleInvert(bas, xRange, invertX(t, xRange[1])),
     scaleInvert(bas, xRange, invertX(t, xRange[2])) >>
rescaleY(t, bas) ==
  << scaleInvert(bas, yRange, invertY(t, yRange[1])),
     scaleInvert(bas, yRange, invertY(t, yRange[2])) >>

\* translateExtent = extent = the plot rectangle: d3 keeps the view of a
\* gesture's transform inside it, i.e. the translation in [hi*(1-k), lo*(1-k)]
Max(a, b) == IF a >= b THEN a ELSE b
Min(a, b) == IF a <= b THEN a ELSE b
translateMin(k, hi) == -((hi * (k - KDen)) \div KDen)
translateMax(k, lo) == -((lo * (k - KDen) + KDen - 1) \div KDen)
constrain(t) ==
  [k |-> t.k,
   x |-> Max(translateMin(t.k, xRange[2]), Min(translateMax(t.k, xRange[1]), t.x)),
   y |-> Max(translateMin(t.k, yRange[1]), Min(translateMax(t.k, yRange[2]), t.y))]

\* scaleExtent([1, maxZoom])
\* (an extent one unit of scale too wide)
ScaleExtentWide == KDen .. (maxZoom * KDen + KDen)
ScaleExtent == KDen .. (maxZoom * KDen)

\* wheel: scale by one sub-step about the pointer p, then constrain
wheeled(t, dk, p) ==
  LET k1 == t.k + dk
  IN constrain([k |-> k1,
                x |-> p[1] - ((p[1] - t.x) * k1) \div t.k,
                y |-> p[2] - ((p[2] - t.y) * k1) \div t.k])

\* drag: translate by the pointer movement, then constrain
dragged(t, d) == constrain([k |-> t.k, x |-> t.x + d[1], y |-> t.y + d[2]])

\* a frame of the transition to zoomIdentity: the scale at k1 between the
\* current scale and 1, the translation scaled along with it
interpolateZoom(t, k1) ==
  IF t.k = KDen THEN zoomIdentity
  ELSE [k |-> k1,
        x |-> (t.x * (k1 - KDen)) \div (t.k - KDen),
        y |-> (t.y * (k1 - KDen)) \div (t.k - KDen)]

\* d3's default double-click zoom: scale by 2 about the pointer, within the
\* scale extent (d3 animates it over 250 ms; the model takes its end transform)
dblclicked(t, p) == wheeled(t, Min(t.k, maxZoom * KDen - t.k), p)

\* selection.call(zoomBehavior): the listeners d3-zoom registers on the node
zoomListeners == { "wheel.zoom", "mousedown.zoom", "dblclick.zoom" }
\* selection.on('dblclick.zoom', null)
\* (the call left out)
dblclickZoomKept(ls) == ls
dblclickZoomOff(ls) == ls \ { "dblclick.zoom" }

\* pointer positions and movements of the modelled gestures
Pointers == { << xRange[1], yRange[2] >>, << xRange[2], yRange[1] >>,
              << (xRange[1] + xRange[2]) \div 2, (yRange[1] + yRange[2]) \div 2 >> }
Moves == { << dx, dy >> \in (-1 .. 1) \X (-1 .. 1) : TRUE }

\* ------------------------------------------------------------ the zoom listener
\* .on('zoom', ...): the updater passed to setDomains.  beh holds the base
\* domains the listener closed over (initialXDomain, initialYDomain and the
\* base scales built from them).
zoomAxisX(prev, t, beh) ==
  IF beh.x = Null THEN prev.xDomain
  ELSE LET cand == clampDomain(rescaleX(t, beh.x), beh.x)
       IN IF ~domainsEqual(prev.xDomain, cand) THEN cand ELSE prev.xDomain
\* (the y candidate stored on every event, equal or not)
zoomAxisYAlways(prev, t, beh) ==
  IF beh.y = Null THEN prev.yDomain ELSE clampDomain(rescaleY(t, beh.y), beh.y)
zoomAxisY(prev, t, beh) ==
  IF beh.y = Null THEN prev.yDomain
  ELSE LET cand == clampDomain(rescaleY(t, beh.y), beh.y)
       IN IF ~domainsEqual(prev.yDomain, cand) THEN cand ELSE prev.yDomain
\* a new state object is built exactly when an axis is replaced
zoomReplacesX(prev, t, beh) ==
  beh.x # Null /\ ~domainsEqual(prev.xDomain, clampDomain(rescaleX(t, beh.x), beh.x))
zoomReplacesY(prev, t, beh) ==
  beh.y # Null /\ ~domainsEqual(prev.yDomain, clampDomain(rescaleY(t, beh.y), beh.y))
onZoom(prev, t, beh) ==
  [xDomain |-> zoomAxisX(prev, t, beh), yDomain |-> zoomAxisY(prev, t, beh)]

\* ------------------------------------------------------------------- the hook
\* the hook's return value: domains.xDomain ?? initialXDomain
publishedX == IF domains.xDomain # Null THEN domains.xDomain ELSE initialXDomain
publishedY == IF domains.yDomain # Null THEN domains.yDomain ELSE initialYDomain

\* the hook's return value: ranges.xRange, ranges.yRange of the useMemo
rangesX == IF initialXDomain # Null THEN xRange ELSE Null
rangesY == IF initialYDomain # Null THEN yRange ELSE Null

\* { xDomain: initialXDomain ?? null, yDomain: initialYDomain ?? null }
baseDomains(x, y) == [xDomain |-> x, yDomain |-> y]

\* props the charts pass: x only (line and area charts), both axes (scatter
\* plots), a NaN bound (extent of an empty series), min = max
Configs ==
  { [x |-> Dom(2, 10), y |-> Null],
    [x |-> Dom(4, 8), y |-> Dom(0, 4)],
    [x |-> << NaN, NaN >>, y |-> << Num(0), NaN >>],
    [x |-> Dom(5, 5), y |-> Dom(0, 0)] }

ClampIdle ==
  /\ candidate = Null /\ base = Null /\ clamped = Null /\ reclamped = Null

\* usePodcastData before its load effect: useState([]), useState(true),
\* useState(null)
DataIdle ==
  /\ dataset = << >> /\ request = "pending" /\ strictRequest = "none"
  /\ raw = << >> /\ loading = TRUE /\ error = "null"

\* first render: useState initialiser, refs null, effects pending
Init ==
  /\ \E c \in Configs :
       /\ initialXDomain = c.x
       /\ initialYDomain = c.y
       /\ domains = baseDomains(c.x, c.y)
  /\ stateChanged = FALSE
  /\ zoomTransform = zoomIdentity
  /\ zoomBehaviorRef = Null
  /\ transition = FALSE
  /\ listeners = {}
  /\ resetZoomed = FALSE
  /\ pc = "effects"
  /\ ev = "render"
  /\ ClampIdle
  /\ DataIdle

\* The two effects of a commit, in order, and the state updates they queue.
\* Effect 1 (base-domain effect): setDomains(base); if a zoom behaviour exists,
\* call its transform with zoomIdentity, which interrupts a transition and
\* dispatches 'zoom' to that behaviour's listener.  Effect 2 then builds the
\* new behaviour and stores it in zoomBehaviorRef, after the previous run's
\* cleanup has removed every '.zoom' listener, and attaches it to the overlay.
RunEffects ==
  /\ pc = "effects"
  /\ LET fresh == baseDomains(initialXDomain, initialYDomain)
     IN IF zoomBehaviorRef # Null
        THEN /\ domains' = onZoom(fresh, zoomIdentity, zoomBehaviorRef)
             /\ zoomTransform' = zoomIdentity
             /\ transition' = FALSE
        ELSE /\ domains' = fresh
             /\ UNCHANGED << zoomTransform, transition >>
  /\ stateChanged' = TRUE
  /\ zoomBehaviorRef' = [x |-> initialXDomain, y |-> initialYDomain]
  /\ listeners' = dblclickZoomOff(zoomListeners)
  /\ pc' = "idle"
  /\ ev' = "effects"
  /\ UNCHANGED << initialXDomain, initialYDomain, resetZoomed >>
  /\ UNCHANGED << clampVars, dataVars >>

\* a render with a base domain of which some bound differs: the effects' deps
ChangeBase ==
  /\ pc = "idle"
  /\ \E c \in Configs :
       /\ << c.x, c.y >> # << initialXDomain, initialYDomain >>
       /\ initialXDomain' = c.x
       /\ initialYDomain' = c.y
  /\ pc' = "effects"
  /\ ev' = "render"
  /\ stateChanged' = FALSE
  /\ UNCHANGED << domains, zoomTransform, zoomBehaviorRef, transition, listeners,
                  resetZoomed >>
  /\ UNCHANGED << clampVars, dataVars >>

\* a user gesture: d3 interrupts a running transition, stores the new
\* transform on the node and dispatches 'zoom'
Gesture(t, kind) ==
  /\ pc = "idle"
  /\ zoomTransform' = t
  /\ transition' = FALSE
  /\ domains' = onZoom(domains, t, zoomBehaviorRef)
  /\ stateChanged' = (zoomReplacesX(domains, t, zoomBehaviorRef)
                        \/ zoomReplacesY(domains, t, zoomBehaviorRef))
  /\ ev' = kind
  /\ UNCHANGED << initialXDomain, initialYDomain, zoomBehaviorRef, listeners,
                  resetZoomed, pc >>
  /\ UNCHANGED << clampVars, dataVars >>

Wheel ==
  \E dk \in {-1, 1}, p \in Pointers :
    /\ "wheel.zoom" \in listeners
    /\ zoomTransform.k + dk \in ScaleExtent
    /\ Gesture(wheeled(zoomTransform, dk, p), "wheel")

Drag ==
  \E d \in Moves :
    /\ "mousedown.zoom" \in listeners
    /\ Gesture(dragged(zoomTransform, d), "drag")

\* resetZoom(): setDomains(base), then start the transition to zoomIdentity
resetZoom ==
  /\ pc = "idle"
  /\ domains' = baseDomains(initialXDomain, initialYDomain)
  /\ stateChanged' = TRUE
  /\ transition' = TRUE
  /\ resetZoomed' = (<< publishedX, publishedY >> # << initialXDomain, initialYDomain >>)
  /\ ev' = "reset"
  /\ UNCHANGED << initialXDomain, initialYDomain, zoomTransform, zoomBehaviorRef,
                  listeners, pc >>
  /\ UNCHANGED << clampVars, dataVars >>

\* a double-click on the overlay (the charts' interaction rect): d3's
\* 'dblclick.zoom' listener runs if the node has one, then React calls
\* onDoubleClick = resetZoom, whose setDomains(base) is queued last
DoubleClick ==
  /\ pc = "idle"
  /\ \E p \in Pointers :
       zoomTransform' = IF "dblclick.zoom" \in listeners
                        THEN dblclicked(zoomTransform, p)
                        ELSE zoomTransform
  /\ domains' = baseDomains(initialXDomain, initialYDomain)
  /\ stateChanged' = TRUE
  /\ transition' = TRUE
  /\ resetZoomed' = (<< publishedX, publishedY >> # << initialXDomain, initialYDomain >>)
  /\ ev' = "dblclick"
  /\ UNCHANGED << initialXDomain, initialYDomain, zoomBehaviorRef, listeners, pc >>
  /\ UNCHANGED << clampVars, dataVars >>

\* a frame of the transition before its end
TransitionTick ==
  /\ pc = "idle"
  /\ transition
  /\ \E k1 \in KDen .. zoomTransform.k :
       LET t == interpolateZoom(zoomTransform, k1)
       IN /\ zoomTransform' = t
          /\ domains' = onZoom(domains, t, zoomBehaviorRef)
          /\ stateChanged' = (zoomReplacesX(domains, t, zoomBehaviorRef)
                                \/ zoomReplacesY(domains, t, zoomBehaviorRef))
  /\ ev' = "tick"
  /\ UNCHANGED << initialXDomain, initialYDomain, zoomBehaviorRef, transition,
                  listeners, resetZoomed, pc >>
  /\ UNCHANGED << clampVars, dataVars >>

\* the last frame of the transition (t = 1): exactly zoomIdentity
TransitionEnd ==
  /\ pc = "idle"
  /\ transition
  /\ zoomTransform' = zoomIdentity
  /\ domains' = onZoom(domains, zoomIdentity, zoomBehaviorRef)
  /\ stateChanged' = (zoomReplacesX(domains, zoomIdentity, zoomBehaviorRef)
                        \/ zoomReplacesY(domains, zoomIdentity, zoomBehaviorRef))
  /\ transition' = FALSE
  /\ ev' = "end"
  /\ UNCHANGED << initialXDomain, initialYDomain, zoomBehaviorRef, listeners,
                  resetZoomed, pc >>
  /\ UNCHANGED << clampVars, dataVars >>

NextFixed ==
  RunEffects \/ Wheel \/ Drag \/ resetZoom \/ DoubleClick \/ TransitionTick \/ TransitionEnd
Next == NextFixed \/ ChangeBase

\* the hook under any sequence of gestures, resets and base-domain changes
Spec == Init /\ [][Next]_vars
\* the hook with the base domains it was mounted with
SpecFixed == Init /\ [][NextFixed]_vars

\* --------------------------------------------- clampDomain as a pure function
ClampValues == { NaN } \cup { Num(i) : i \in 0 .. ClampMax }
ClampDomains == ClampValues \X ClampValues

HookIdle ==
  /\ initialXDomain = Dom(2, 10) /\ initialYDomain = Null
  /\ domains = baseDomains(Dom(2, 10), Null)
  /\ stateChanged = FALSE /\ zoomTransform = zoomIdentity /\ zoomBehaviorRef = Null
  /\ transition = FALSE /\ listeners = {} /\ resetZoomed = FALSE
  /\ pc = "effects" /\ ev = "render"

\* the arguments the zoom listener can pass: two arrays of numbers
ClampInit ==
  /\ candidate \in ClampDomains
  /\ base \in ClampDomains
  /\ clamped = Null
  /\ reclamped = Null
  /\ HookIdle
  /\ DataIdle

ApplyClamp ==
  /\ clamped = Null
  /\ clamped' = clampDomain(candidate, base)
  /\ UNCHANGED << candidate, base, reclamped >>
  /\ UNCHANGED << hookVars, dataVars >>

ApplyClampAgain ==
  /\ clamped # Null
  /\ reclamped = Null
  /\ reclamped' = clampDomain(clamped, base)
  /\ UNCHANGED << candidate, base, clamped >>
  /\ UNCHANGED << hookVars, dataVars >>

ClampNext == ApplyClamp \/ ApplyClampAgain
ClampSpec == ClampInit /\ [][ClampNext]_vars

\* ================================================================ the data hook
\* Model of usePodcastData (src/unnamed/part_001): parseRow, averageInWindow,
\* correlation, the load effect and the memoized derivation.
\*
\* Numbers.  A number of the dataset is NaN, +/-Infinity, or a binary
\* floating-point value m * 2^e, m odd or 0, of at most MantissaBits
\* significant bits (53 in JavaScript); every arithmetic result and every
\* literal is rounded to the nearest such value, ties to even.  There is no
\* exponent limit and no negative zero.
fNaN == [kind |-> "nan", m |-> 0, e |-> 0]
fInf(sgn) == [kind |-> "inf", m |-> sgn, e |-> 0]
fZero == [kind |-> "num", m |-> 0, e |-> 0]

fAbs(n) == IF n < 0 THEN -n ELSE n
fSign(a) == IF a.m < 0 THEN -1 ELSE 1
RECURSIVE fBits(_)
fBits(n) == IF n = 0 THEN 0 ELSE 1 + fBits(n \div 2)
\* the canonical form of m * 2^e
RECURSIVE fNorm(_, _)
fNorm(m, e) ==
  IF m = 0 THEN fZero
  ELSE IF m % 2 = 0 THEN fNorm(m \div 2, e + 1)
  ELSE [kind |-> "num", m |-> m, e |-> e]
\* m * 2^e rounded to MantissaBits significant bits
fRound(m, e) ==
  LET a == fAbs(m)
      s == fBits(a) - MantissaBits
  IN IF s <= 0 THEN fNorm(m, e)
     ELSE LET q  == a \div (2 ^ s)
              r  == a % (2 ^ s)
              h  == 2 ^ (s - 1)
              q1 == IF r > h \/ (r = h /\ q % 2 = 1) THEN q + 1 ELSE q
          IN fNorm(IF m < 0 THEN -q1 ELSE q1, e + s)
\* the position of the leading bit
fTop(a) == a.e + fBits(fAbs(a.m))

FromInt(i) == fRound(i, 0)

fNeg(a) == [a EXCEPT !.m = -a.m]
fAdd(a, b) ==
  IF a.kind = "nan" \/ b.kind = "nan" THEN fNaN
  ELSE IF a.kind = "inf" /\ b.kind = "inf" THEN (IF a.m = b.m THEN a ELSE fNaN)
  ELSE IF a.kind = "inf" THEN a
  ELSE IF b.kind = "inf" THEN b
  ELSE IF a.m = 0 THEN b
  ELSE IF b.m = 0 THEN a
  \* an addend below a quarter of the other's last place is rounded away
  ELSE IF fTop(a) - fTop(b) > MantissaBits + 2 THEN a
  ELSE IF fTop(b) - fTop(a) > MantissaBits + 2 THEN b
  ELSE LET e == Min(a.e, b.e)
       IN fRound(a.m * 2 ^ (a.e - e) + b.m * 2 ^ (b.e - e), e)
fSub(a, b) == fAdd(a, fNeg(b))
fMul(a, b) ==
  IF a.kind = "nan" \/ b.kind = "nan" THEN fNaN
  ELSE IF a.kind = "inf" \/ b.kind = "inf"
       THEN (IF a.m = 0 \/ b.m = 0 THEN fNaN ELSE fInf(fSign(a) * fSign(b)))
  ELSE fRound(a.m * b.m, a.e + b.e)
fDiv(a, b) ==
  IF a.kind = "nan" \/ b.kind = "nan" THEN fNaN
  ELSE IF a.kind = "inf" /\ b.kind = "inf" THEN fNaN
  ELSE IF a.kind = "inf" THEN fInf(fSign(a) * fSign(b))
  ELSE IF b.kind = "inf" THEN fZero
  ELSE IF b.m = 0 THEN (IF a.m = 0 THEN fNaN ELSE fInf(fSign(a)))
  ELSE IF a.m = 0 THEN fZero
  ELSE LET k == Max(0, MantissaBits + 2 + fBits(fAbs(b.m)) - fBits(fAbs(a.m)))
           n == fAbs(a.m) * 2 ^ k
           q == n \div fAbs(b.m)
           r == n % fAbs(b.m)
       IN fRound(fSign(a) * fSign(b) * (2 * q + (IF r = 0 THEN 0 ELSE 1)),
                 a.e - b.e - k - 1)
RECURSIVE ISqrt(_)
ISqrt(n) ==
  IF n < 2 THEN n
  ELSE LET s == 2 * ISqrt(n \div 4)
       IN IF (s + 1) * (s + 1) <= n THEN s + 1 ELSE s
\* Math.sqrt
fSqrt(a) ==
  IF a.kind = "nan" \/ a.m < 0 THEN fNaN
  ELSE IF a.kind = "inf" THEN a
  ELSE IF a.m = 0 THEN fZero
  ELSE LET k0 == Max(0, 2 * MantissaBits + 2 - fBits(a.m))
           k  == IF (a.e - k0) % 2 = 0 THEN k0 ELSE k0 + 1
           mm == a.m * 2 ^ k
           s  == ISqrt(mm)
       IN fRound(2 * s + (IF s * s = mm THEN 0 ELSE 1), (a.e - k) \div 2 - 1)
\* a === 0, a < b, a >= b
fIsZero(a) == a.kind = "num" /\ a.m = 0
fLt(a, b) == a.kind # "nan" /\ b.kind # "nan" /\ a # b /\ fSub(a, b).m < 0
fGe(a, b) == a.kind # "nan" /\ b.kind # "nan" /\ ~fLt(a, b)
fFinite(a) == a.kind = "num"

\* ---------------------------------------------------------------- CSV rows
\* A cell of the file is a string: a run of decimal digits, the empty string,
\* or text that is no number.  A duration string is a sequence of such runs
\* and ':' characters.
Digits(n) == [text |-> "digits", n |-> n]
Blank == [text |-> "", n |-> 0]
Letters == [text |-> "abc", n |-> 0]
Colon == [text |-> ":", n |-> 0]
Hms(h, m, s) == << Digits(h), Colon, Digits(m), Colon, Digits(s) >>

\* Number(string): digits convert to their value, '' to 0, other text to NaN
Number(cell) ==
  IF cell.text = "digits" THEN FromInt(cell.n)
  ELSE IF cell.text = "" THEN fZero
  ELSE fNaN

\* string.split(':')
RECURSIVE split(_)
split(str) ==
  IF \A i \in 1 .. Len(str) : str[i] # Colon THEN << str >>
  ELSE LET i == CHOOSE i \in 1 .. Len(str) :
                  str[i] = Colon /\ \A j \in 1 .. (i - 1) : str[j] # Colon
       IN << SubSeq(str, 1, i - 1) >> \o split(SubSeq(str, i + 1, Len(str)))
\* Number of a component of the split
NumberOf(part) ==
  IF part = << >> THEN fZero
  ELSE IF Len(part) = 1 THEN Number(part[1])
  ELSE fNaN
\* const [hours, minutes, seconds] = parts.map(Number): a missing element is
\* undefined, which is NaN in arithmetic; elements past the third are dropped
destructured(parts, i) == IF i <= Len(parts) THEN NumberOf(parts[i]) ELSE fNaN

\* downloads === 0 ? 0 : completionNumbers / downloads
\* (the guard left out)
completionRateUnguarded(downloads, completionNumbers) == fDiv(completionNumbers, downloads)
completionRate(downloads, completionNumbers) ==
  IF fIsZero(downloads) THEN fZero ELSE fDiv(completionNumbers, downloads)

parseRow(row) ==
  LET parts   == split(row.duration)
      hours   == destructured(parts, 1)
      minutes == destructured(parts, 2)
      seconds == destructured(parts, 3)
      downloads          == Number(row.downloads)
      completionNumbers  == Number(row.completion_numbers)
      newListeners       == Number(row.new_listeners)
      returningListeners == Number(row.returning_listeners)
  IN [episode            |-> Number(row.episode),
      title              |-> row.title,
      durationMinutes    |-> fAdd(fAdd(fMul(hours, FromInt(60)), minutes),
                                  fDiv(seconds, FromInt(60))),
      downloads          |-> downloads,
      completionNumbers  |-> completionNumbers,
      completionRate     |-> completionRate(downloads, completionNumbers),
      newListeners       |-> newListeners,
      returningListeners |-> returningListeners,
      listenersTotal     |-> fAdd(newListeners, returningListeners),
      subscribersGained  |-> Number(row.subscribers_gained),
      socialMediaShares  |-> Number(row.social_media_shares)]

\* values.reduce((sum, item) => sum + accessor(item), 0) over the first n items
RECURSIVE reduceSum(_, _, _)
reduceSum(series, field, n) ==
  IF n = 0 THEN fZero ELSE fAdd(reduceSum(series, field, n - 1), series[n][field])

\* the window argument of both calls
window == 7
\* averageInWindow(series, index, accessor, window); index counts from 1 here
\* (the mean over all the items up to index)
averageFromStart(series, index, field, w) ==
  fDiv(reduceSum(series, field, index), FromInt(index))
averageInWindow(series, index, field, w) ==
  LET start == Max(1, index - (w - 1))
      slice == SubSeq(series, start, index)
  IN fDiv(reduceSum(slice, field, Len(slice)), FromInt(Len(slice)))

\* the sums of correlation()
RECURSIVE sumOfProducts(_, _, _, _, _, _)
sumOfProducts(series, xField, yField, meanX, meanY, n) ==
  IF n = 0 THEN fZero
  ELSE fAdd(sumOfProducts(series, xField, yField, meanX, meanY, n - 1),
            fMul(fSub(series[n][xField], meanX), fSub(series[n][yField], meanY)))
RECURSIVE variance(_, _, _, _)
variance(series, field, mean, n) ==
  IF n = 0 THEN fZero
  ELSE LET d == fSub(series[n][field], mean)
       IN fAdd(variance(series, field, mean, n - 1), fMul(d, d))
correlation(series, xField, yField) ==
  LET n == Len(series)
  IN IF n = 0 THEN fZero
     ELSE LET meanX == fDiv(reduceSum(series, xField, n), FromInt(n))
              meanY == fDiv(reduceSum(series, yField, n), FromInt(n))
              numerator == sumOfProducts(series, xField, yField, meanX, meanY, n)
              denominator == fSqrt(fMul(variance(series, xField, meanX, n),
                                        variance(series, yField, meanY, n)))
          IN IF fIsZero(denominator) THEN fZero ELSE fDiv(numerator, denominator)

\* rows.sort((a, b) => a.episode - b.episode): Array.prototype.sort is stable;
\* an element moves in front of those that compare greater than it
compareEpisodes(a, b) == fSub(a.episode, b.episode)
RECURSIVE insertSorted(_, _)
insertSorted(sorted, x) ==
  IF sorted = << >> THEN << x >>
  ELSE LET last == sorted[Len(sorted)]
       IN IF compareEpisodes(last, x).m > 0
          THEN Append(insertSorted(SubSeq(sorted, 1, Len(sorted) - 1), x), last)
          ELSE Append(sorted, x)
\* (the rows left in file order)
sortSkipped(rows) == rows
RECURSIVE sort(_)
sort(rows) ==
  IF rows = << >> THEN << >>
  ELSE insertSorted(sort(SubSeq(rows, 1, Len(rows) - 1)), rows[Len(rows)])

\* ------------------------------------------------------- the memoized derivation
\* cumulativeSubscribers += ..., cumulativeDownloads += ... up to item idx
\* (the sum taken before the item is added)
cumulativeBefore(series, field, idx) == reduceSum(series, field, idx - 1)
cumulative(series, field, idx) == reduceSum(series, field, idx)

\* item.listenersTotal === 0 ? 0 : item.newListeners / item.listenersTotal
newListenerRatio(item) ==
  IF fIsZero(item.listenersTotal) THEN fZero
  ELSE fDiv(item.newListeners, item.listenersTotal)
\* item.downloads === 0 ? 0 : (count / item.downloads) * 1000
perThousandDownloads(item, field) ==
  IF fIsZero(item.downloads) THEN fZero
  ELSE fMul(fDiv(item[field], item.downloads), FromInt(1000))

\* the callback of raw.map
episodeOf(series, idx) ==
  [cumulativeSubscribers |-> cumulative(series, "subscribersGained", idx),
   cumulativeDownloads   |-> cumulative(series, "downloads", idx),
   downloadsRolling      |-> averageInWindow(series, idx, "downloads", window),
   completionRolling     |-> averageInWindow(series, idx, "completionRate", window),
   newListenerRatio      |-> newListenerRatio(series[idx]),
   subscribersPerThousandDownloads |->
     perThousandDownloads(series[idx], "subscribersGained"),
   sharesPerThousandDownloads |->
     perThousandDownloads(series[idx], "socialMediaShares")] @@ series[idx]
episodesOf(series) == [idx \in 1 .. Len(series) |-> episodeOf(series, idx)]

\* Math.floor(episodes.length / 2)
\* (the split rounded up)
halfwayIndexCeil(n) == (n + 1) \div 2
halfwayIndex(n) == n \div 2
\* arr.reduce((sum, item) => sum + accessor(item), 0) / arr.length
\* (the sum divided by one more than the length)
arrAverageOffByOne(arr, field) ==
  fDiv(reduceSum(arr, field, Len(arr)), FromInt(Len(arr) + 1))
arrAverage(arr, field) == fDiv(reduceSum(arr, field, Len(arr)), FromInt(Len(arr)))

\* averageDownloadsEarly === 0 ? 0 : ((late - early) / early) * 100
downloadsGrowthPercent(early, late) ==
  IF fIsZero(early) THEN fZero
  ELSE fMul(fDiv(fSub(late, early), early), FromInt(100))
\* (late - early) * 100
percentagePoints(early, late) == fMul(fSub(late, early), FromInt(100))

summaryOf(eps) ==
  LET earlySlice == SubSeq(eps, 1, halfwayIndex(Len(eps)))
      lateSlice  == SubSeq(eps, halfwayIndex(Len(eps)) + 1, Len(eps))
  IN [totalEpisodes          |-> FromInt(Len(eps)),
      averageDownloads       |-> arrAverage(eps, "downloads"),
      averageCompletionRate  |-> arrAverage(eps, "completionRate"),
      averageDuration        |-> arrAverage(eps, "durationMinutes"),
      totalSubscribers       |-> cumulative(eps, "subscribersGained", Len(eps)),
      downloadsGrowthPercent |->
        downloadsGrowthPercent(arrAverage(earlySlice, "downloads"),
                               arrAverage(lateSlice, "downloads")),
      completionRateChange   |->
        percentagePoints(arrAverage(earlySlice, "completionRate"),
                         arrAverage(lateSlice, "completionRate")),
      newListenerShareChange |->
        percentagePoints(arrAverage(earlySlice, "newListenerRatio"),
                         arrAverage(lateSlice, "newListenerRatio")),
      sharesSubscribersCorrelation |->
        correlation(eps, "socialMediaShares", "subscribersGained"),
      durationCompletionCorrelation |->
        correlation(eps, "durationMinutes", "completionRate"),
      latestEpisode          |-> eps[Len(eps)]]

\* useMemo(..., [raw]); the hook returns its episodes and summary
episodes == IF Len(raw) = 0 THEN << >> ELSE episodesOf(raw)
summary == IF Len(raw) = 0 THEN Null ELSE summaryOf(episodesOf(raw))

\* ------------------------------------------------------------------ insights
\* value.toFixed(digits): "NaN" and "Infinity" as text, otherwise a sign and
\* the integer n for which n / 10^digits is nearest the magnitude (the larger
\* n on a tie); a negative value keeps its "-" when it rounds to zero
toFixed(value, digits) ==
  IF value.kind = "nan" THEN [text |-> "NaN", sign |-> "", n |-> 0, digits |-> digits]
  ELSE IF value.kind = "inf"
    THEN [text |-> "Infinity", sign |-> IF value.m < 0 THEN "-" ELSE "", n |-> 0,
          digits |-> digits]
  ELSE LET mag == fAbs(value.m)
           n == IF value.e >= 0 THEN mag * 2 ^ value.e * 10 ^ digits
                ELSE IF (-value.e) - fBits(mag) > 4 * digits + 1 THEN 0
                ELSE (2 * mag * 10 ^ digits + 2 ^ (-value.e)) \div (2 * 2 ^ (-value.e))
       IN [text |-> "digits", sign |-> IF value.m < 0 THEN "-" ELSE "", n |-> n,
           digits |-> digits]
\* value.toLocaleString(): at most three fraction digits
toLocaleString(value) == toFixed(value, 3)

\* `${value >= 0 ? '+' : ''}${value.toFixed(digits)}%`
formatPercent(value, digits) ==
  [prefix |-> IF fGe(value, fZero) THEN "+" ELSE "",
   number |-> toFixed(value, digits), suffix |-> "%"]

\* the wording of an insight and the number it shows
Insight(wording, shown) == [wording |-> wording, shown |-> shown]
\* condition ? positive wording : caution wording, each with r.toFixed(2)
framed(r, positive, caution) ==
  IF fGe(r, fZero) THEN Insight(positive, toFixed(r, 2))
  ELSE Insight(caution, toFixed(r, 2))

insightsOf(sm) ==
  [downloads        |-> Insight("Recent episodes are averaging",
                                formatPercent(sm.downloadsGrowthPercent, 1)),
   completion       |-> Insight("Completion rate moved",
                                formatPercent(sm.completionRateChange, 1)),
   listenerMix      |-> Insight("New listeners make up",
                                formatPercent(sm.newListenerShareChange, 1)),
   subscriberGrowth |-> Insight("Total subscribers climbed to",
                                toLocaleString(sm.totalSubscribers)),
   sharesToSubs     |-> framed(sm.sharesSubscribersCorrelation,
                               "Social sharing strongly correlates with subscriber gains",
                               "Higher social sharing currently coincides with fewer subscribers"),
   duration         |-> framed(sm.durationCompletionCorrelation,
                               "Longer episodes trend toward stronger completion rates",
                               "Longer episodes trend toward lower completion")]
\* the hook returns memoized.insights: {} while raw is empty
insights == IF Len(raw) = 0 THEN << >> ELSE insightsOf(summaryOf(episodesOf(raw)))

\* ------------------------------------------------------------------ the App
\* what App renders from the hook's result: the loading message, the
\* fallback message, or the header and the six charts
\* (the error || !summary branch left out)
AppWithoutFallback == IF loading THEN "loading" ELSE "charts"
App ==
  IF loading THEN "loading"
  ELSE IF error # "null" \/ summary = Null THEN "fallback"
  ELSE "charts"

\* ------------------------------------------------------------ the load effect
\* a row of the file, with the columns parseRow reads
Row(episode, title, duration, downloads, completions, new, returning, subs, shares) ==
  [episode |-> episode, title |-> title, duration |-> duration,
   downloads |-> downloads, completion_numbers |-> completions,
   new_listeners |-> new, returning_listeners |-> returning,
   subscribers_gained |-> subs, social_media_shares |-> shares]

\* rows of a dataset: well-formed ones (zero downloads, zero listeners, an
\* episode number used twice, a ratio of 1/3) and malformed ones
RowInputs ==
  { Row(Digits(1), "a", Hms(0, 1, 40), Digits(1), Digits(0), Digits(0), Digits(0), Digits(0), Digits(0)),
    Row(Digits(2), "b", Hms(0, 1, 40), Digits(1), Digits(1), Digits(1), Digits(1), Digits(1), Digits(2)),
    Row(Digits(2), "c", Hms(1, 0, 0), Digits(0), Digits(1), Digits(1), Digits(0), Digits(1), Digits(1)),
    Row(Digits(3), "d", Hms(0, 30, 0), Digits(3), Digits(1), Digits(1), Digits(2), Digits(2), Digits(1)),
    Row(Digits(1), "e", << Digits(12), Colon, Digits(34) >>,
        Digits(2), Digits(1), Digits(1), Digits(1), Digits(1), Digits(1)),
    Row(Digits(3), "f", << Digits(1), Colon, Digits(2), Colon, Digits(3), Colon, Digits(4) >>,
        Digits(2), Digits(2), Digits(1), Digits(0), Digits(0), Digits(1)),
    Row(Digits(2), "g", << Letters, Colon, Digits(10), Colon, Digits(0) >>,
        Digits(1), Digits(1), Digits(0), Digits(1), Digits(1), Digits(0)),
    Row(Digits(1), "h", Hms(0, 10, 0), Letters, Digits(1), Digits(1), Digits(1), Digits(1), Digits(1)),
    Row(Digits(3), "i", Hms(0, 20, 0), Digits(2), Digits(1), Digits(1), Blank, Letters, Digits(1)) }

\* rows of a longer series: two rows of one episode number and a third
SeriesRows ==
  { Row(Digits(1), "a", Hms(0, 1, 0), Digits(2), Digits(1), Digits(1), Digits(0), Digits(1), Digits(0)),
    Row(Digits(1), "b", Hms(0, 2, 0), Digits(1), Digits(1), Digits(0), Digits(1), Digits(0), Digits(1)),
    Row(Digits(2), "c", Hms(0, 1, 0), Digits(0), Digits(0), Digits(0), Digits(0), Digits(2), Digits(0)) }

\* the file served at DATA_URL gets its next row; csv(DATA_URL, parseRow)
\* hands every row to parseRow once the text has arrived
ParseRow(rows, max) ==
  /\ request = "pending" /\ strictRequest \in { "none", "pending" }
  /\ Len(dataset) < max
  /\ \E row \in rows : dataset' = Append(dataset, row)
  /\ UNCHANGED << raw, loading, error, request, strictRequest >>
  /\ UNCHANGED << hookVars, clampVars >>

\* the fulfilment value of csv(): the rows converted by parseRow
csvRows == [i \in 1 .. Len(dataset) |-> parseRow(dataset[i])]

\* .then((rows) => ...): the rows sorted and stored
LoadResolved ==
  /\ request = "pending"
  /\ raw' = sort(csvRows)
  /\ loading' = FALSE
  /\ request' = "fulfilled"
  /\ UNCHANGED << dataset, error, strictRequest >>
  /\ UNCHANGED << hookVars, clampVars >>

\* .catch((err) => ...): the file could not be fetched
LoadRejected ==
  /\ request = "pending"
  /\ error' = "Error"
  /\ loading' = FALSE
  /\ request' = "rejected"
  /\ UNCHANGED << dataset, raw, strictRequest >>
  /\ UNCHANGED << hookVars, clampVars >>

\* the same callbacks on the promise of the effect's second run: the effect
\* has no cleanup, so both promises keep their callbacks
StrictResolved ==
  /\ strictRequest = "pending"
  /\ raw' = sort(csvRows)
  /\ loading' = FALSE
  /\ strictRequest' = "fulfilled"
  /\ UNCHANGED << dataset, error, request >>
  /\ UNCHANGED << hookVars, clampVars >>

StrictRejected ==
  /\ strictRequest = "pending"
  /\ error' = "Error"
  /\ loading' = FALSE
  /\ strictRequest' = "rejected"
  /\ UNCHANGED << dataset, raw, request >>
  /\ UNCHANGED << hookVars, clampVars >>

DataInit == DataIdle /\ HookIdle /\ ClampIdle
\* <React.StrictMode>: the mount effect has run twice, two requests pending
StrictInit ==
  /\ dataset = << >> /\ request = "pending" /\ strictRequest = "pending"
  /\ raw = << >> /\ loading = TRUE /\ error = "null"
  /\ HookIdle /\ ClampIdle
DataNext == ParseRow(RowInputs, MaxRows) \/ LoadResolved \/ LoadRejected
SeriesNext == ParseRow(SeriesRows, MaxSeries) \/ LoadResolved \/ LoadRejected
StrictNext ==
  \/ ParseRow(SeriesRows, MaxRows) \/ LoadResolved \/ LoadRejected
  \/ StrictResolved \/ StrictRejected
\* the hook loading a dataset of up to MaxRows rows of any kind
DataSpec == DataInit /\ [][DataNext]_vars
\* the hook loading a well-formed series of up to MaxSeries rows
SeriesSpec == DataInit /\ [][SeriesNext]_vars
\* the hook mounted under React.StrictMode in a development build
StrictSpec == StrictInit /\ [][StrictNext]_vars

\* ================================================================== claims
\* a domain as a window: its smaller bound, its larger bound, its span
lo(d) == MathMin(d[1], d[2])
hi(d) == MathMax(d[1], d[2])
span(d) == Sub(hi(d), lo(d))
Finite(d) == d # Null /\ ~d[1].nan /\ ~d[2].nan
Narrower(d, b) == Finite(d) /\ Finite(b) /\ Lt(span(d), span(b))
OverflowsLow(d, b) == Lt(lo(d), lo(b))
OverflowsHigh(d, b) == Gt(hi(d), hi(b))
Inside(d, b) == Finite(d) /\ Finite(b) /\ Ge(lo(d), lo(b)) /\ Ge(hi(b), hi(d))
\* the window of d moved so that its overflowed bound sits on the bound of b
Translated(r, d, b) ==
  IF OverflowsLow(d, b)
  THEN lo(r) = lo(b) /\ hi(r) = Add(lo(b), span(d))
  ELSE hi(r) = hi(b) /\ lo(r) = Sub(hi(b), span(d))

C6_WiderReturnsBase ==
  (clamped # Null /\ Ge(span(candidate), span(base))) => clamped = base

\* a descending base and a wider candidate lying partly outside it
C6_Witness ==
  /\ clamped # Null /\ Gt(base[1], base[2])
  /\ Gt(span(candidate), span(base)) /\ OverflowsHigh(candidate, base)
  /\ clamped = base

\* C7: clamping is idempotent: clampDomain(clampDomain(d, b), b) equals
\* clampDomain(d, b) for every candidate d and base b.
C7_ClampIdempotent == reclamped # Null => reclamped = clamped

\* a candidate that the first clamp changed, clamped a second time
C7_Witness ==
  /\ reclamped # Null /\ clamped # candidate /\ clamped # base /\ reclamped = clamped

\* C8 as stated: every candidate lying within the base comes back unchanged.
C8_InBoundsUnchangedAny ==
  (clamped # Null /\ Inside(candidate, base)) => clamped = candidate

\* C8 amended: a candidate within the base comes back unchanged when its span
\* is at least DOMAIN_EPSILON and it runs in the base's direction; with the
\* opposite direction it comes back reversed, and with a span below
\* DOMAIN_EPSILON the base comes back.
C8_InBoundsUnchanged ==
  (clamped # Null /\ Inside(candidate, base))
  => IF ~Ge(span(candidate), DOMAIN_EPSILON) THEN clamped = base
     ELSE IF Ge(candidate[2], candidate[1]) = ascending(base) THEN clamped = candidate
     ELSE clamped = << candidate[2], candidate[1] >>

\* a window strictly inside the base, exactly DOMAIN_EPSILON wide
C8_Witness ==
  /\ clamped # Null /\ Inside(candidate, base) /\ candidate # base
  /\ span(candidate) = DOMAIN_EPSILON /\ clamped = candidate

\* ------------------------------------------------------------ the controller
WellFormed(b) == b = Null \/ (Finite(b) /\ b[1] # b[2])
Malformed(b) == b # Null /\ (b[1].nan \/ b[2].nan \/ b[1] = b[2])
Within(p, b) == b # Null => Inside(p, b)
PublishedIsBase == publishedX = initialXDomain /\ publishedY = initialYDomain
\* the step just taken dispatched a 'zoom' event of a gesture or of the
\* reset transition
ZoomEvents == { "wheel", "drag", "tick", "end" }
\* the clamped candidates of a 'zoom' event with transform t
candidateX(t) == clampDomain(rescaleX(t, zoomBehaviorRef.x), zoomBehaviorRef.x)
candidateY(t) == clampDomain(rescaleY(t, zoomBehaviorRef.y), zoomBehaviorRef.y)

\* C1: once an event has been processed, each published domain lies inside
\* its current (well-formed) base domain.
C1_PublishedWithinBase ==
  (pc = "idle" /\ WellFormed(initialXDomain) /\ WellFormed(initialYDomain))
  => (Within(publishedX, initialXDomain) /\ Within(publishedY, initialYDomain))

\* C2: once a base-domain change has been processed (the commit's effects
\* have run), the published domains are the new base domains, the transform
\* is the identity and no transition is left running.
C2_BaseChangeHardReset ==
  ev = "effects" => (PublishedIsBase /\ zoomTransform = zoomIdentity /\ ~transition)

\* C3: when resetZoom() is called with a published domain that differs from
\* the (well-formed) base, the published domain is exactly the base right
\* after the call and again when the reset transition has run to its end.
C3_ResetRestoresBaseExactly ==
  (resetZoomed /\ ev \in { "reset", "end" }
     /\ WellFormed(initialXDomain) /\ WellFormed(initialYDomain))
  => PublishedIsBase

\* C4: a gesture that follows a resetZoom() of a zoomed chart, with nothing
\* but the reset's own transition in between, starts from the identity
\* transform.
C4_GestureAfterResetFromIdentity ==
  [][(resetZoomed /\ ev \in { "reset", "tick", "end" } /\ ev' \in { "wheel", "drag" })
       => zoomTransform = zoomIdentity]_vars

\* both bounds of a and b less than DOMAIN_EPSILON apart (false with a NaN bound)
CloserThanEpsilon(a, b) ==
  /\ a # Null /\ b # Null
  /\ Lt(Abs(Sub(a[1], b[1])), DOMAIN_EPSILON)
  /\ Lt(Abs(Sub(a[2], b[2])), DOMAIN_EPSILON)
\* some bound of a and b more than DOMAIN_EPSILON apart
BeyondEpsilon(a, b) ==
  /\ a # Null /\ b # Null
  /\ (Gt(Abs(Sub(a[1], b[1])), DOMAIN_EPSILON) \/ Gt(Abs(Sub(a[2], b[2])), DOMAIN_EPSILON))
\* what a 'zoom' event may do to one axis: keep the previous domain when the
\* axis has no base or the candidate is closer than epsilon, else publish it
AxisKept(prev, next, cand, bas) ==
  (bas = Null \/ CloserThanEpsilon(prev, cand)) /\ next = prev
AxisReplaced(prev, next, cand, bas) ==
  bas # Null /\ ~CloserThanEpsilon(prev, cand) /\ next = cand

\* C9 as stated: a gesture event on a well-formed chart changes a published
\* domain only if the clamped candidate differs from it by more than
\* DOMAIN_EPSILON on at least one bound.
C9_UpdateOnlyBeyondEpsilon ==
  [][(ev' \in ZoomEvents /\ WellFormed(initialXDomain) /\ WellFormed(initialYDomain))
       => /\ domains'.xDomain # domains.xDomain
               => BeyondEpsilon(domains.xDomain, candidateX(zoomTransform'))
          /\ domains'.yDomain # domains.yDomain
               => BeyondEpsilon(domains.yDomain, candidateY(zoomTransform'))]_vars

\* C9 amended: a gesture event replaces an axis's domain by the clamped
\* candidate exactly when some bound of the two is not less than
\* DOMAIN_EPSILON apart (a difference of exactly epsilon, or a NaN bound,
\* replaces it); otherwise the axis keeps its previous value, also when the
\* other axis is replaced, and when no axis is replaced the state object is
\* the previous one.
C9_UpdateSuppression ==
  [][ev' \in ZoomEvents
       => /\ \/ AxisKept(domains.xDomain, domains'.xDomain, candidateX(zoomTransform'), zoomBehaviorRef.x)
             \/ AxisReplaced(domains.xDomain, domains'.xDomain, candidateX(zoomTransform'), zoomBehaviorRef.x)
          /\ \/ AxisKept(domains.yDomain, domains'.yDomain, candidateY(zoomTransform'), zoomBehaviorRef.y)
             \/ AxisReplaced(domains.yDomain, domains'.yDomain, candidateY(zoomTransform'), zoomBehaviorRef.y)
          /\ stateChanged' =
               (\/ AxisReplaced(domains.xDomain, domains'.xDomain, candidateX(zoomTransform'), zoomBehaviorRef.x)
                \/ AxisReplaced(domains.yDomain, domains'.yDomain, candidateY(zoomTransform'), zoomBehaviorRef.y))
          /\ ~stateChanged' => domains' = domains]_vars

\* a gesture replaced the x domain while the y domain, whose candidate is
\* closer than epsilon but not equal, kept its previous value
C9_Witness ==
  /\ ev \in { "wheel", "drag" } /\ stateChanged
  /\ zoomBehaviorRef.y # Null
  /\ domains.yDomain # candidateY(zoomTransform)
  /\ CloserThanEpsilon(domains.yDomain, candidateY(zoomTransform))
  /\ domains.xDomain = candidateX(zoomTransform)

\* C10: with a malformed base domain (a NaN bound, or min = max) the hook
\* reports that base domain verbatim after every gesture event and reset.
C10_MalformedBaseIsNoOp ==
  (pc = "idle" /\ ev \in ZoomEvents \cup { "reset" })
  => /\ Malformed(initialXDomain) => publishedX = initialXDomain
     /\ Malformed(initialYDomain) => publishedY = initialYDomain

\* the span of a published domain against its finite base span: no wider than
\* the base and no narrower than base span / maxZoom
SpanWithinZoom(p, b) ==
  (b # Null /\ Finite(b))
  => /\ Finite(p)
     /\ Ge(span(b), span(p))
     /\ span(p).v * maxZoom >= span(b).v

\* C11: after any sequence of gestures the zoom scale factor k lies in
\* [1, maxZoom], and the span of every published domain is at most the base
\* span and at least base span / maxZoom.
C11_ScaleWithinExtent ==
  pc = "idle"
  => /\ ev \in { "wheel", "drag" }
          => (zoomTransform.k >= KDen /\ zoomTransform.k <= maxZoom * KDen)
     /\ SpanWithinZoom(publishedX, initialXDomain)
     /\ SpanWithinZoom(publishedY, initialYDomain)

\* a wheel gesture reached the largest scale: the published x domain is
\* exactly base span / maxZoom wide
C11_Witness ==
  /\ ev = "wheel" /\ zoomTransform.k = maxZoom * KDen
  /\ WellFormed(initialXDomain) /\ initialXDomain # Null
  /\ span(publishedX).v * maxZoom = span(initialXDomain).v

\* C12: whenever the zoom behaviour has been attached or re-attached the
\* overlay has d3's wheel and drag listeners but no 'dblclick.zoom' listener;
\* a double-click leaves the zoom transform as it was (it never zooms in) and
\* its only change to the published domains is resetZoom()'s: they become the
\* base domains and the reset transition starts.
C12_DoubleClickOnlyResets ==
  [][/\ pc' = "idle" => listeners' = { "wheel.zoom", "mousedown.zoom" }
     /\ ev' = "dblclick"
          => /\ zoomTransform' = zoomTransform
             /\ domains' = baseDomains(initialXDomain, initialYDomain)
             /\ PublishedIsBase'
             /\ transition']_vars

\* a double-click on a zoomed chart
C12_Witness ==
  /\ ev = "dblclick" /\ resetZoomed /\ zoomTransform.k > KDen
  /\ PublishedIsBase /\ "dblclick.zoom" \notin listeners

\* ---------------------------------------------------------------- the data hook
\* the rows as parseRow converted them, in file order
Parsed == [i \in 1 .. Len(dataset) |-> parseRow(dataset[i])]
\* a duration string of exactly three components, each a run of digits
WellFormedDuration(str) ==
  /\ Len(split(str)) = 3
  /\ \A i \in 1 .. 3 : Len(split(str)[i]) = 1 /\ split(str)[i][1].text = "digits"
NumericColumns ==
  { "episode", "downloads", "completion_numbers", "new_listeners",
    "returning_listeners", "subscribers_gained", "social_media_shares" }
MalformedRow(row) ==
  \/ ~WellFormedDuration(row.duration)
  \/ \E c \in NumericColumns : row[c].text # "digits"

\* C13: fail-fast derivation: once the load has settled with a malformed row
\* in the dataset (unparsable duration, non-numeric value in a numeric
\* column), the hook holds an error and publishes no episodes and no summary.
C13_FailFast ==
  (request # "pending" /\ \E i \in 1 .. Len(dataset) : MalformedRow(dataset[i]))
  => (error # "null" /\ episodes = << >> /\ summary = Null)

\* C14: a duration string that does not split on ':' into exactly three
\* numeric components makes the load fail: no load is fulfilled with such a
\* row, and no published episode has a NaN durationMinutes.
C14_MalformedDurationFails ==
  request = "fulfilled"
  => /\ \A i \in 1 .. Len(dataset) : WellFormedDuration(dataset[i].duration)
     /\ \A i \in 1 .. Len(raw) : raw[i].durationMinutes.kind # "nan"
     /\ summary # Null => summary.averageDuration.kind # "nan"

\* the exact sum of a field over the indices S of a series (NaN when a value
\* is no finite number), and the mean it gives
RECURSIVE ExactSum(_, _, _)
ExactSum(series, field, S) ==
  IF S = {} THEN fZero
  ELSE LET j == CHOOSE j \in S : TRUE
           a == series[j][field]
           b == ExactSum(series, field, S \ {j})
       IN IF a.kind # "num" \/ b.kind # "num" THEN fNaN
          ELSE fNorm(a.m * 2 ^ (a.e - Min(a.e, b.e)) + b.m * 2 ^ (b.e - Min(a.e, b.e)),
                     Min(a.e, b.e))
ExactMean(series, field, S) ==
  fDiv(ExactSum(series, field, S), FromInt(Cardinality(S)))
\* the indices max(0, i-6) .. i of the claim, counted from 1
TrailingWindow(i) == { j \in 1 .. i : j >= i - 6 }

\* C15: for every index i of the ordered series downloadsRolling[i] and
\* completionRolling[i] are the mean of the field over the trailing window
\* max(0, i-6) .. i, which holds i+1 records for i < 6 and 7 records
\* otherwise; at index 0 the rolling value is the record's own value.
C15_RollingWindow ==
  request = "fulfilled"
  => LET eps == episodes
     IN \A i \in 1 .. Len(eps) :
          /\ Cardinality(TrailingWindow(i)) = (IF i - 1 < 6 THEN i ELSE 7)
          /\ eps[i].downloadsRolling = ExactMean(raw, "downloads", TrailingWindow(i))
          /\ eps[i].completionRolling = ExactMean(raw, "completionRate", TrailingWindow(i))
          /\ i = 1 => /\ eps[i].downloadsRolling = raw[i].downloads
                      /\ eps[i].completionRolling = raw[i].completionRate

\* an eighth episode whose window has dropped the first episode: its rolling
\* mean differs from the mean over all eight
C15_Witness ==
  /\ request = "fulfilled" /\ Len(raw) >= 8
  /\ LET eps == episodes
     IN /\ eps[8].downloadsRolling # ExactMean(raw, "downloads", 1 .. 8)
        /\ eps[8].completionRolling # ExactMean(raw, "completionRate", 1 .. 8)
        /\ eps[3].downloadsRolling = ExactMean(raw, "downloads", 1 .. 3)

\* C16: for every index i cumulativeDownloads[i] is the sum of downloads over
\* 0 .. i and cumulativeSubscribers[i] the sum of subscribersGained over
\* 0 .. i; with non-negative inputs both are non-decreasing in i.
NonNegative(series, field) ==
  \A j \in 1 .. Len(series) : series[j][field].kind = "num" /\ series[j][field].m >= 0
C16_Cumulative ==
  request = "fulfilled"
  => LET eps == episodes
     IN /\ \A i \in 1 .. Len(eps) :
             /\ eps[i].cumulativeDownloads = ExactSum(raw, "downloads", 1 .. i)
             /\ eps[i].cumulativeSubscribers = ExactSum(raw, "subscribersGained", 1 .. i)
        /\ NonNegative(raw, "downloads")
             => \A i \in 2 .. Len(eps) :
                  fGe(eps[i].cumulativeDownloads, eps[i - 1].cumulativeDownloads)
        /\ NonNegative(raw, "subscribersGained")
             => \A i \in 2 .. Len(eps) :
                  fGe(eps[i].cumulativeSubscribers, eps[i - 1].cumulativeSubscribers)

\* three episodes read out of order, the running sums growing along the
\* sorted order
C16_Witness ==
  /\ request = "fulfilled" /\ Len(raw) = 3 /\ raw # Parsed
  /\ NonNegative(raw, "downloads") /\ NonNegative(raw, "subscribersGained")
  /\ LET eps == episodes
     IN /\ fLt(eps[1].cumulativeDownloads, eps[2].cumulativeDownloads)
        /\ fLt(eps[2].cumulativeDownloads, eps[3].cumulativeDownloads)
        /\ fLt(eps[1].cumulativeSubscribers, eps[3].cumulativeSubscribers)

\* an episode whose counts are all non-negative numbers
CountFields ==
  { "downloads", "completionNumbers", "newListeners", "returningListeners",
    "subscribersGained", "socialMediaShares" }
RatioFields ==
  { "completionRate", "newListenerRatio", "subscribersPerThousandDownloads",
    "sharesPerThousandDownloads", "completionRolling", "downloadsRolling" }
NonNegativeCounts(ep) == \A f \in CountFields : ep[f].kind = "num" /\ ep[f].m >= 0

\* C17: for every row completionRate is 0 when downloads = 0, newListenerRatio
\* is 0 when new + returning listeners = 0 and the per-1000-downloads figures
\* are 0 when downloads = 0; with non-negative integer inputs no derived
\* ratio field is NaN or Infinity.
C17_DivideByZeroGuards ==
  LET eps == episodes
  IN \A i \in 1 .. Len(eps) :
       /\ fIsZero(eps[i].downloads)
            => /\ eps[i].completionRate = fZero
               /\ eps[i].subscribersPerThousandDownloads = fZero
               /\ eps[i].sharesPerThousandDownloads = fZero
       /\ fIsZero(fAdd(eps[i].newListeners, eps[i].returningListeners))
            => eps[i].newListenerRatio = fZero
       /\ (\A j \in 1 .. Len(eps) : NonNegativeCounts(eps[j]))
            => \A f \in RatioFields : fFinite(eps[i][f])

\* an episode with no downloads but completions and subscribers, and one
\* with no listeners
C17_Witness ==
  /\ request = "fulfilled"
  /\ LET eps == episodes
     IN /\ \A j \in 1 .. Len(eps) : NonNegativeCounts(eps[j])
        /\ \E i \in 1 .. Len(eps) :
             /\ fIsZero(eps[i].downloads)
             /\ eps[i].completionNumbers.m > 0 /\ eps[i].subscribersGained.m > 0
             /\ eps[i].completionRate = fZero
        /\ \E i \in 1 .. Len(eps) :
             fIsZero(eps[i].listenersTotal) /\ eps[i].newListenerRatio = fZero

\* the rows of a series with episode number n, in their order in the series
WithEpisode(series, n) ==
  LET Test(r) == r.episode = n IN SelectSeq(series, Test)
EpisodeNumbers == { Parsed[i].episode : i \in 1 .. Len(dataset) }

\* C18: for any input order the published episodes are in ascending
\* episode-number order, rows of one episode number keep their relative
\* order, and the cumulative and rolling fields follow the sorted order.
C18_SortedStable ==
  request = "fulfilled"
  => LET eps == episodes
     IN /\ Len(eps) = Len(dataset)
        /\ \A i \in 1 .. Len(eps) : \A j \in i .. Len(eps) :
             ~fLt(eps[j].episode, eps[i].episode)
        /\ \A n \in EpisodeNumbers : WithEpisode(raw, n) = WithEpisode(Parsed, n)
        /\ \A i \in 1 .. Len(eps) :
             /\ eps[i].title = raw[i].title
             /\ eps[i].cumulativeDownloads = ExactSum(raw, "downloads", 1 .. i)
             /\ eps[i].downloadsRolling = ExactMean(raw, "downloads", TrailingWindow(i))

\* rows read in descending order with two rows of one episode number
C18_Witness ==
  /\ request = "fulfilled" /\ Len(raw) = 3
  /\ fLt(Parsed[3].episode, Parsed[1].episode)
  /\ LET eps == episodes
     IN /\ eps[2].episode = eps[3].episode
        /\ eps[2].title # eps[3].title
        /\ fLt(eps[1].cumulativeDownloads, eps[3].cumulativeDownloads)

Constant(series, field) ==
  \A i \in 1 .. Len(series) :
    series[i][field].kind = "num" /\ series[i][field] = series[1][field]
AllFinite(series, field) == \A i \in 1 .. Len(series) : series[i][field].kind = "num"

\* C20: correlation returns exactly 0 for an empty series and whenever one
\* of the two variables is constant over the series, and never NaN when all
\* values are finite.
C20_CorrelationZeroGuard ==
  /\ correlation(<< >>, "durationMinutes", "completionRate") = fZero
  /\ summary # Null
       => LET eps == episodes
              sm  == summary
          IN /\ (Constant(eps, "durationMinutes") /\ AllFinite(eps, "completionRate"))
                  => sm.durationCompletionCorrelation = fZero
             /\ (Constant(eps, "completionRate") /\ AllFinite(eps, "durationMinutes"))
                  => sm.durationCompletionCorrelation = fZero
             /\ (Constant(eps, "socialMediaShares") /\ AllFinite(eps, "subscribersGained"))
                  => sm.sharesSubscribersCorrelation = fZero
             /\ (Constant(eps, "subscribersGained") /\ AllFinite(eps, "socialMediaShares"))
                  => sm.sharesSubscribersCorrelation = fZero
             /\ (AllFinite(eps, "durationMinutes") /\ AllFinite(eps, "completionRate"))
                  => sm.durationCompletionCorrelation.kind # "nan"
             /\ (AllFinite(eps, "socialMediaShares") /\ AllFinite(eps, "subscribersGained"))
                  => sm.sharesSubscribersCorrelation.kind # "nan"

\* -1 <= r <= 1
WithinUnit(r) == fGe(r, FromInt(-1)) /\ fGe(FromInt(1), r)

\* the correlation of the published episodes is the same with its two
\* accessors exchanged, for both pairs of fields of the summary
CorrelationSymmetric ==
  request = "fulfilled"
  => LET eps == episodes
     IN /\ correlation(eps, "socialMediaShares", "subscribersGained")
             = correlation(eps, "subscribersGained", "socialMediaShares")
        /\ correlation(eps, "durationMinutes", "completionRate")
             = correlation(eps, "completionRate", "durationMinutes")

\* the correlation of two finite series lies in [-1, 1]
CorrelationInUnitRange ==
  summary # Null
  => LET eps == episodes
         sm  == summary
     IN /\ (AllFinite(eps, "socialMediaShares") /\ AllFinite(eps, "subscribersGained"))
             => WithinUnit(sm.sharesSubscribersCorrelation)
        /\ (AllFinite(eps, "durationMinutes") /\ AllFinite(eps, "completionRate"))
             => WithinUnit(sm.durationCompletionCorrelation)

\* C21: the correlation is symmetric in its two variables and its result
\* lies in [-1, 1].
C21_SymmetricInUnitRange == CorrelationSymmetric /\ CorrelationInUnitRange

\* the wordings used for a correlation that is >= 0, and for one that is not
PositiveWordings ==
  { "Social sharing strongly correlates with subscriber gains",
    "Longer episodes trend toward stronger completion rates" }
CautionWordings ==
  { "Higher social sharing currently coincides with fewer subscribers",
    "Longer episodes trend toward lower completion" }
FramedBySign(insight, r) ==
  /\ insight.wording \in PositiveWordings <=> fGe(r, fZero)
  /\ insight.wording \in CautionWordings <=> fLt(r, fZero)
PrefixedBySign(insight, value) == insight.shown.prefix = "+" <=> fGe(value, fZero)

\* C22: the sharesToSubs and duration insights use the positive wording
\* exactly when their correlation is >= 0 and the caution wording exactly
\* when it is < 0; the three percentage insights carry a '+' prefix exactly
\* when their value is >= 0.
C22_InsightFraming ==
  summary # Null
  => LET sm  == summary
         ins == insightsOf(sm)
     IN /\ FramedBySign(ins.sharesToSubs, sm.sharesSubscribersCorrelation)
        /\ FramedBySign(ins.duration, sm.durationCompletionCorrelation)
        /\ PrefixedBySign(ins.downloads, sm.downloadsGrowthPercent)
        /\ PrefixedBySign(ins.completion, sm.completionRateChange)
        /\ PrefixedBySign(ins.listenerMix, sm.newListenerShareChange)

\* a load has completed: one of the effect's requests was fulfilled
Loaded == request = "fulfilled" \/ strictRequest = "fulfilled"

\* C23: summary is null exactly when there are no usable rows (no load has
\* completed, or the dataset is empty); whenever summary is null or error is
\* set App renders the loading or the fallback message and no chart; the
\* charts are rendered only with a non-empty episodes array.
C23_NullSummaryShowsFallback ==
  /\ summary = Null <=> (~Loaded \/ dataset = << >>)
  /\ (summary = Null \/ error # "null") => App \in { "loading", "fallback" }
  /\ App = "charts" => (episodes # << >> /\ summary # Null /\ error = "null")

\* a load that completed with an empty dataset: no summary, the fallback shown
C23_Witness ==
  /\ Loaded /\ dataset = << >> /\ ~loading /\ error = "null"
  /\ summary = Null /\ App = "fallback"

\* a load has failed: one of the effect's requests was rejected
Failed == request = "rejected" \/ strictRequest = "rejected"

\* C24: the dataset is read once and a failure is never retried: a settled
\* request is never issued again, loading never goes back from false to
\* true, and after a failed load the hook stays in the state loading = false,
\* error set, episodes empty, summary null.
C24_FailureIsFinal ==
  /\ [](Failed => (~loading /\ error # "null" /\ raw = << >> /\ summary = Null))
  /\ [][/\ request # "pending" => request' = request
        /\ strictRequest # "pending" => strictRequest' = strictRequest
        /\ ~loading => ~loading']_vars

\* the three rows of the example: downloads 100, 200, 300, completions 50,
\* 100, 150, no subscribers, one share each
ExampleRows ==
  << Row(Digits(1), "x", Hms(0, 30, 0), Digits(100), Digits(50), Digits(1), Digits(1), Digits(0), Digits(1)),
     Row(Digits(2), "y", Hms(0, 30, 0), Digits(200), Digits(100), Digits(1), Digits(1), Digits(0), Digits(1)),
     Row(Digits(3), "z", Hms(0, 30, 0), Digits(300), Digits(150), Digits(1), Digits(1), Digits(0), Digits(1)) >>
ExampleSummary ==
  summaryOf(episodesOf(sort([i \in 1 .. 3 |-> parseRow(ExampleRows[i])])))

\* a is the mean of n non-negative values whose exact sum is s, up to the
\* rounding of the n - 1 additions and the division that computed it (each
\* within 2^-MantissaBits of its result): |a * n - s| <= 2n * 2^-MantissaBits * s
MeanUpToRounding(a, s, n) ==
  IF a.kind # "num" \/ s.kind # "num" THEN a = s
  ELSE LET e == Min(a.e, s.e)
           d == a.m * n * 2 ^ (a.e - e) - s.m * 2 ^ (s.e - e)
       IN fAbs(d) * 2 ^ MantissaBits <= 2 * n * fAbs(s.m) * 2 ^ (s.e - e)

\* C25: totalEpisodes is the number of rows, averageCompletionRate the
\* unweighted mean of the per-episode completion rates, and totalSubscribers
\* the sum of subscribersGained, which is the cumulativeSubscribers of the
\* last episode; the three example rows give 3, 0.5 and 0.
C25_SummaryAggregates ==
  /\ summary # Null
       => LET eps == episodes
              sm  == summary
              n   == Len(dataset)
          IN /\ sm.totalEpisodes = FromInt(n) /\ Len(eps) = n
             /\ MeanUpToRounding(sm.averageCompletionRate,
                                 ExactSum(eps, "completionRate", 1 .. n), n)
             /\ sm.totalSubscribers = ExactSum(eps, "subscribersGained", 1 .. n)
             /\ sm.totalSubscribers = eps[n].cumulativeSubscribers
  /\ ExampleSummary.totalEpisodes = FromInt(3)
  /\ ExampleSummary.averageCompletionRate = fDiv(FromInt(1), FromInt(2))
  /\ ExampleSummary.totalSubscribers = fZero

\* three episodes whose mean completion rate is not the completions of the
\* whole series over its downloads, with subscribers gained
C25_Witness ==
  /\ request = "fulfilled" /\ Len(raw) = 3
  /\ LET sm == summary
     IN /\ fFinite(sm.averageCompletionRate) /\ ~fIsZero(sm.averageCompletionRate)
        /\ ~MeanUpToRounding(fDiv(reduceSum(raw, "completionNumbers", 3),
                                  reduceSum(raw, "downloads", 3)),
                             ExactSum(raw, "completionRate", 1 .. 3), 3)
        /\ fLt(fZero, sm.totalSubscribers)

\* C26: whenever the clamped window's span is smaller than DOMAIN_EPSILON
\* clampDomain returns the base domain unchanged: a finite candidate narrower
\* than DOMAIN_EPSILON gives the base, and no result has a span below
\* DOMAIN_EPSILON unless it is the base itself.
C26_DegenerateReturnsBase ==
  clamped # Null
  => /\ (Finite(candidate) /\ Finite(base) /\ Lt(span(candidate), DOMAIN_EPSILON))
          => clamped = base
     /\ Lt(span(clamped), DOMAIN_EPSILON) => clamped = base

\* a window narrower than DOMAIN_EPSILON inside a wider base, clamped to the base
C26_Witness ==
  /\ clamped # Null /\ Finite(candidate) /\ Finite(base)
  /\ Gt(span(candidate), Num(0)) /\ Lt(span(candidate), DOMAIN_EPSILON)
  /\ Inside(candidate, base) /\ Ge(span(base), DOMAIN_EPSILON)
  /\ clamped = base /\ clamped # candidate

\* each bound of p is within DOMAIN_EPSILON of the same bound of q
WithinEpsilon(p, q) ==
  /\ p # Null /\ q # Null
  /\ ~Gt(Abs(Sub(p[1], q[1])), DOMAIN_EPSILON) /\ ~Gt(Abs(Sub(p[2], q[2])), DOMAIN_EPSILON)
  /\ Finite(p) /\ Finite(q)
ConsistentX == WithinEpsilon(publishedX, candidateX(zoomTransform))
ConsistentY == WithinEpsilon(publishedY, candidateY(zoomTransform))

\* C27: in every state with the zoom behaviour attached, each published
\* domain is within DOMAIN_EPSILON per bound of the clamped image of its base
\* under the current zoom transform (so the base is not published while the
\* transform holds a zoom that moves a bound by more than DOMAIN_EPSILON, nor
\* a zoomed window while the transform is the identity).
C27_PublishedMatchesTransform ==
  (pc = "idle" /\ zoomBehaviorRef # Null)
  => /\ (WellFormed(initialXDomain) /\ initialXDomain # Null) => ConsistentX
     /\ (WellFormed(initialYDomain) /\ initialYDomain # Null) => ConsistentY

SummaryNumbers ==
  { "averageDownloads", "averageCompletionRate", "averageDuration", "totalSubscribers",
    "downloadsGrowthPercent", "completionRateChange", "newListenerShareChange",
    "sharesSubscribersCorrelation", "durationCompletionCorrelation" }
\* the number an insight shows, as toFixed or toLocaleString wrote it
ShownNumber(insight) ==
  IF "number" \in DOMAIN insight.shown THEN insight.shown.number ELSE insight.shown

\* C28: for every non-empty series of well-formed rows (a single row
\* included) every numeric field of the published summary is a finite number
\* and every insight string shows a number.
C28_SummaryFinite ==
  (summary # Null /\ \A i \in 1 .. Len(dataset) : ~MalformedRow(dataset[i]))
  => LET sm  == summary
         ins == insights
     IN /\ \A f \in SummaryNumbers : fFinite(sm[f])
        /\ \A k \in DOMAIN ins : ShownNumber(ins[k]).text = "digits"

\* C29: under every interleaving of the load callbacks of the effect's two
\* runs, error and summary are never both set, and once App has rendered the
\* charts it never renders the fallback (error stays null, raw non-empty).
C29_NoErrorWithData ==
  /\ [](~(error # "null" /\ summary # Null))
  /\ [][App = "charts" => (error' = "null" /\ raw' # << >> /\ ~loading')]_vars

Gestures == { "wheel", "drag" }
\* a controller without a y base domain publishes no y domain and no y range
NoYAxisPublished ==
  initialYDomain = Null
  => (publishedY = Null /\ domains.yDomain = Null /\ rangesY = Null /\ rangesX = xRange)

\* C30: a controller without a y base domain never publishes a y domain or
\* a y range, through any sequence of gestures and resets; on a two-axis
\* controller a gesture that replaces one axis's domain while the other
\* axis's candidate is less than DOMAIN_EPSILON from its published domain
\* leaves that other domain unchanged.
C30_AxisIndependence ==
  /\ []NoYAxisPublished
  /\ [][(ev' \in Gestures /\ zoomBehaviorRef.x # Null /\ zoomBehaviorRef.y # Null)
          => /\ (/\ domains'.xDomain # domains.xDomain
                 /\ CloserThanEpsilon(domains.yDomain, candidateY(zoomTransform')))
                  => domains'.yDomain = domains.yDomain
             /\ (/\ domains'.yDomain # domains.yDomain
                 /\ CloserThanEpsilon(domains.xDomain, candidateX(zoomTransform')))
                  => domains'.xDomain = domains.xDomain]_vars

\* a gesture on a two-axis controller replaced the x domain while the y
\* domain stayed the base, its candidate being closer than DOMAIN_EPSILON but
\* not equal
C30_Witness ==
  /\ ev \in Gestures /\ stateChanged
  /\ zoomBehaviorRef.x # Null /\ zoomBehaviorRef.y # Null
  /\ domains.xDomain = candidateX(zoomTransform)
  /\ domains.xDomain # initialXDomain
  /\ domains.yDomain = initialYDomain
  /\ domains.yDomain # candidateY(zoomTransform)
  /\ CloserThanEpsilon(domains.yDomain, candidateY(zoomTransform))

====
